---- MODULE Spec2Model ----
(***************************************************************************)
(* The MySQL revision-tracking provider of wandern                         *)
(* (src/wandern/databases/mysql.py), as a state machine.                   *)
(*                                                                         *)
(* The state is the database the provider talks to (the tracking table,    *)
(* the target schema the revisions' own SQL changes), the wall clock       *)
(* datetime.now() reads, and, for every runner process, the statement its  *)
(* current call is about to execute, the call's arguments, the connections *)
(* it holds open and the result of its last finished call.                 *)
(*                                                                         *)
(* A Python str is a sequence of one-character strings, so that join,      *)
(* split and SQL LIKE are computed, not assumed.  A nullable value is a    *)
(* sequence of length 0 (None / NULL) or 1 (the value).                    *)
(* The columns down_revision_id and message are written and read back      *)
(* verbatim and take part in no condition of the code; rows leave them out.*)
(* String comparison in SQL is modelled as equality of the character       *)
(* sequences (a binary collation).                                         *)
(***************************************************************************)
EXTENDS Integers, Sequences, FiniteSets, TLC

VARIABLES
    tableExists,  \* the tracking table exists in the database
    table,        \* its rows
    schema,       \* schema[id]: the forward change of revision id is in effect
    now,          \* the wall clock read by datetime.now()
    pc,           \* pc[p]: the statement process p executes next, or "idle"
    arg,          \* arg[p]: the arguments of p's current call
    conn,         \* conn[p]: the number of connections p holds open
    ret,          \* ret[p]: the outcome of p's last finished call
    config        \* the provider's Config: config.dsn, the connection descriptor

vars == <<tableExists, table, schema, now, pc, arg, conn, ret, config>>

\* ------------------------------------------------------------------ bounds
MaxClock == 1

\* ------------------------------------------------------------------ values
None == <<>>
Some(v) == <<v>>

Procs == {"p1", "p2"}
RevIds == {"r1", "r2"}
Clock == 0..MaxClock

NoArg == [kind |-> "none"]
NoRet == [op |-> "none", status |-> "none"]

\* ------------------------------------------------------------------ strings
\* ",".join(tags)
RECURSIVE join(_)
join(tags) ==
    IF tags = <<>> THEN <<>>
    ELSE IF Len(tags) = 1 THEN Head(tags)
    ELSE Head(tags) \o <<",">> \o join(Tail(tags))

\* s.split(","): never empty, "" splits to [""]
RECURSIVE split(_)
split(s) ==
    IF s = <<>> THEN << <<>> >>
    ELSE LET rest == split(Tail(s)) IN
         IF Head(s) = "," THEN << <<>> >> \o rest
         ELSE << <<Head(s)>> \o Head(rest) >> \o Tail(rest)

\* s LIKE pattern: % matches any run of characters, _ any one character
RECURSIVE Like(_, _)
Like(s, pattern) ==
    IF pattern = <<>> THEN s = <<>>
    ELSE IF Head(pattern) = "%"
        THEN Like(s, Tail(pattern)) \/ (s # <<>> /\ Like(Tail(s), pattern))
    ELSE IF Head(pattern) = "_"
        THEN s # <<>> /\ Like(Tail(s), Tail(pattern))
    ELSE s # <<>> /\ Head(s) = Head(pattern) /\ Like(Tail(s), Tail(pattern))

\* Python truthiness of a str | None, a list | None
Truthy(x) == x # None /\ x[1] # <<>>

\* "tags": ",".join(revision.tags) if revision.tags else None
EncodeTags(tags) == IF Truthy(tags) THEN Some(join(tags[1])) ELSE None

\* row["tags"].split(",") if row["tags"] else []
DecodeTags(col) == IF Truthy(col) THEN split(col[1]) ELSE <<>>

\* ------------------------------------------------------------------ str
\* s.startswith(prefix)
startswith(s, prefix) ==
    Len(s) >= Len(prefix) /\ SubSeq(s, 1, Len(prefix)) = prefix

\* c in s
contains(s, c) == \E i \in 1..Len(s) : s[i] = c

\* s.find(c) + 1: the position of the first c in s, 0 when there is none
find(s, c) ==
    IF contains(s, c)
    THEN CHOOSE i \in 1..Len(s) : s[i] = c /\ \A j \in 1..(i - 1) : s[j] # c
    ELSE 0

\* s.rfind(c) + 1
rfind(s, c) ==
    IF contains(s, c)
    THEN CHOOSE i \in 1..Len(s) : s[i] = c /\ \A j \in (i + 1)..Len(s) : s[j] # c
    ELSE 0

\* s cut at position i: (before, separator, after)
CutAt(s, c, i) == <<SubSeq(s, 1, i - 1), <<c>>, SubSeq(s, i + 1, Len(s))>>

\* s.partition(c): split at the first c, (s, "", "") without a c
partition(s, c) ==
    IF contains(s, c) THEN CutAt(s, c, find(s, c)) ELSE <<s, <<>>, <<>>>>

\* s.rpartition(c): split at the last c, ("", "", s) without a c
rpartition(s, c) ==
    IF contains(s, c) THEN CutAt(s, c, rfind(s, c)) ELSE <<<<>>, <<>>, s>>

\* s.split(sep): the pieces between the separators, never an empty list
RECURSIVE str_split(_, _)
str_split(s, sep) ==
    IF ~contains(s, sep) THEN <<s>>
    ELSE <<partition(s, sep)[1]>> \o str_split(partition(s, sep)[3], sep)

\* s.lstrip(c)
RECURSIVE lstrip(_, _)
lstrip(s, c) == IF s # <<>> /\ Head(s) = c THEN lstrip(Tail(s), c) ELSE s

\* s.rstrip(c)
RECURSIVE rstrip(_, _)
rstrip(s, c) ==
    IF s # <<>> /\ s[Len(s)] = c THEN rstrip(SubSeq(s, 1, Len(s) - 1), c) ELSE s

\* s.strip(c)
strip(s, c) == rstrip(lstrip(s, c), c)

UpperCase ==
    <<"A", "B", "C", "D", "E", "F", "G", "H", "I", "J", "K", "L", "M",
      "N", "O", "P", "Q", "R", "S", "T", "U", "V", "W", "X", "Y", "Z">>

LowerCase ==
    <<"a", "b", "c", "d", "e", "f", "g", "h", "i", "j", "k", "l", "m",
      "n", "o", "p", "q", "r", "s", "t", "u", "v", "w", "x", "y", "z">>

\* s.lower()
lower(s) ==
    [i \in 1..Len(s) |->
        IF \E k \in 1..26 : UpperCase[k] = s[i]
        THEN LowerCase[CHOOSE k \in 1..26 : UpperCase[k] = s[i]]
        ELSE s[i]]

Digits == <<"0", "1", "2", "3", "4", "5", "6", "7", "8", "9">>

\* s.isdigit() (and s.isascii()): a non-empty run of decimal digits
isdigit(s) ==
    s # <<>> /\ \A i \in 1..Len(s) : \E d \in 1..10 : Digits[d] = s[i]

\* the value of a run of decimal digits
RECURSIVE DecimalValue(_)
DecimalValue(s) ==
    IF s = <<>> THEN 0
    ELSE 10 * DecimalValue(SubSeq(s, 1, Len(s) - 1))
         + (CHOOSE d \in 1..10 : Digits[d] = s[Len(s)]) - 1

\* a run of decimal digits, with or without one sign before it
IsSigned(t) ==
    isdigit(IF t # <<>> /\ Head(t) \in {"+", "-"} THEN Tail(t) ELSE t)

SignedValue(t) ==
    IF Head(t) = "-" THEN 0 - DecimalValue(Tail(t))
    ELSE IF Head(t) = "+" THEN DecimalValue(Tail(t))
    ELSE DecimalValue(t)

\* int(s) of a str: blanks around the literal are accepted; IntOfStr(s) is
\* defined when IsIntLiteral(s)
IsIntLiteral(s) == IsSigned(strip(s, " "))

IntOfStr(s) == SignedValue(strip(s, " "))

\* ------------------------------------------------------------------ values
\* Python values by type, as the mapping of connection parameters holds them
PyStr(s) == [type |-> "str", str |-> s]
PyInt(n) == [type |-> "int", int |-> n]
PyBool(b) == [type |-> "bool", bool |-> b]
PyNone == [type |-> "NoneType"]

\* an f-string message: its fixed text and the values formatted into it
Message(text, values) == [text |-> text, values |-> values]

\* an exception with its message and its __cause__ (raise ... from cause)
Exception(type, message, cause) ==
    [type |-> type, message |-> message, cause |-> cause]

ValueError(text, values, cause) ==
    Exception("ValueError", Message(text, values), cause)

\* the outcome of a function: the value returned or the exception raised
Returned(value) == [ok |-> TRUE, value |-> value]
Threw(exc) == [ok |-> FALSE, exc |-> exc]

\* ------------------------------------------------------------------ the DSN
\* BOOLEAN_PARAM_KEYS
BOOLEAN_PARAM_KEYS == {"autocommit", "ssl_disabled", "use_pure"}

\* the query keys that override what the authority and the path gave
OverrideKeys == {"user", "password", "database"}

\* the spelling of a parameter name
KeyChars ==
    [user |-> <<"u", "s", "e", "r">>,
     password |-> <<"p", "a", "s", "s", "w", "o", "r", "d">>,
     database |-> <<"d", "a", "t", "a", "b", "a", "s", "e">>,
     autocommit |-> <<"a", "u", "t", "o", "c", "o", "m", "m", "i", "t">>,
     ssl_disabled |-> <<"s", "s", "l", "_", "d", "i", "s", "a", "b", "l", "e", "d">>,
     use_pure |-> <<"u", "s", "e", "_", "p", "u", "r", "e">>]

MysqlPrefix == <<"m", "y", "s", "q", "l", ":", "/", "/">>

\* where the authority of url ends: at the first of / ? #, or with url
AuthorityEnd(url) ==
    LET ends == {i \in 1..Len(url) : url[i] \in {"/", "?", "#"}} IN
    IF ends = {} THEN Len(url) + 1 ELSE CHOOSE i \in ends : \A j \in ends : i <= j

\* the authority and what follows it, cut at the first ?
UrlParts(netloc, rest) ==
    IF contains(netloc, "[") # contains(netloc, "]")
    THEN Threw(ValueError("Invalid IPv6 URL", <<>>, None))
    ELSE Returned([netloc |-> netloc, path |-> rest[1], query |-> rest[3]])

\* url, after the scheme and //, cut at the end of the authority; the
\* fragment is cut off at the first #
UrlCut(url, end) ==
    UrlParts(SubSeq(url, 1, end - 1),
             partition(partition(SubSeq(url, end, Len(url)), "#")[1], "?"))

\* urlparse(dsn) of a dsn that starts with mysql://: the authority runs to
\* the first of / ? #, the fragment is cut off at the first #, the query at
\* the first ?.  A [ or ] without its partner is a ValueError.  (Descriptors
\* with a bracketed host, with control characters or with non-ASCII
\* characters are not among the inputs.)
urlparse(dsn) ==
    UrlCut(SubSeq(dsn, Len(MysqlPrefix) + 1, Len(dsn)),
           AuthorityEnd(SubSeq(dsn, Len(MysqlPrefix) + 1, Len(dsn))))

\* user and password out of user[:password]
Credentials(info) ==
    <<Some(info[1]), IF info[2] = <<>> THEN None ELSE Some(info[3])>>

\* the user info of the authority cut at its last @: (None, None) without @
UserInfo(cut) ==
    IF cut[2] = <<>> THEN <<None, None>> ELSE Credentials(partition(cut[1], ":"))

\* parsed.username, parsed.password
username(parsed) == UserInfo(rpartition(parsed.netloc, "@"))[1]

password(parsed) == UserInfo(rpartition(parsed.netloc, "@"))[2]

\* host and port out of host[:port], after the last @ of the authority
hostinfo(parsed) == partition(rpartition(parsed.netloc, "@")[3], ":")

\* the host lower-cased; None when empty
HostName(host) == IF host = <<>> THEN None ELSE Some(lower(host))

\* parsed.hostname
hostname(parsed) == HostName(hostinfo(parsed)[1])

\* the port number in the range urlparse accepts
PortInRange(n) ==
    IF n > 65535 THEN Threw(ValueError("Port out of range 0-65535", <<>>, None))
    ELSE Returned(Some(n))

\* the port as a number: None when nothing follows the :, a ValueError when
\* it is not a run of digits or is above 65535
PortNumber(text) ==
    IF text = <<>> THEN Returned(None)
    ELSE IF ~isdigit(text)
        THEN Threw(ValueError("Port could not be cast to integer value as {port!r}",
                              <<PyStr(text)>>, None))
    ELSE PortInRange(DecimalValue(text))

\* parsed.port
port(parsed) == PortNumber(hostinfo(parsed)[3])

\* the fields of a query as (name, value) pairs; a field without = is a
\* ValueError
QueryFields(fields) ==
    LET bad == {i \in 1..Len(fields) : ~contains(fields[i], "=")} IN
    IF bad # {}
    THEN Threw(ValueError("bad query field: {name_value!r}",
                          <<PyStr(fields[CHOOSE i \in bad : \A j \in bad : i <= j])>>,
                          None))
    ELSE Returned([i \in 1..Len(fields) |->
                      <<partition(fields[i], "=")[1], partition(fields[i], "=")[3]>>])

\* parse_qs(query, strict_parsing=True, keep_blank_values=True) as the list of
\* (name, value) fields.  (No + and no percent-escape is among the inputs, so
\* that unquoting changes nothing.)
parse_qs(query) == QueryFields(str_split(query, "&"))

\* d[key] = value
setitem(d, key, value) == (key :> value) @@ d

\* QueryLoop keeping the last value of a key that repeats
QueryLoopLast(parsed_params, fields) ==
    LET first == {i \in 1..Len(fields) : \A j \in 1..(i - 1) : fields[j][1] # fields[i][1]}
        last == {i \in 1..Len(fields) : \A j \in (i + 1)..Len(fields) : fields[j][1] # fields[i][1]}
        empty == {i \in first : fields[i][2] = <<>>}
        known == {k \in BOOLEAN_PARAM_KEYS \union OverrideKeys :
                     \E i \in first : fields[i][1] = KeyChars[k]}
        value(k) == fields[CHOOSE i \in last : fields[i][1] = KeyChars[k]][2]
    IN  IF empty # {}
        THEN Threw(ValueError("Empty value for query parameter: {key}",
                              <<PyStr(fields[CHOOSE i \in empty : \A j \in empty : i <= j][1])>>,
                              None))
        ELSE Returned([k \in DOMAIN parsed_params \union known |->
                          IF k \in known THEN PyStr(value(k)) ELSE parsed_params[k]])

\* the loop over query_params.items(): the keys come in the order of their
\* first field, each with the list of its values; the first one whose first
\* value is empty raises, a recognized one is stored with its first value
QueryLoop(parsed_params, fields) ==
    LET first == {i \in 1..Len(fields) : \A j \in 1..(i - 1) : fields[j][1] # fields[i][1]}
        empty == {i \in first : fields[i][2] = <<>>}
        known == {k \in BOOLEAN_PARAM_KEYS \union OverrideKeys :
                     \E i \in first : fields[i][1] = KeyChars[k]}
        value(k) == fields[CHOOSE i \in first : fields[i][1] = KeyChars[k]][2]
    IN  IF empty # {}
        THEN Threw(ValueError("Empty value for query parameter: {key}",
                              <<PyStr(fields[CHOOSE i \in empty : \A j \in empty : i <= j][1])>>,
                              None))
        ELSE Returned([k \in DOMAIN parsed_params \union known |->
                          IF k \in known THEN PyStr(value(k)) ELSE parsed_params[k]])

\* the body of the try block: parse_qs, then the loop
QueryParsed(parsed_params, query_params) ==
    IF query_params.ok THEN QueryLoop(parsed_params, query_params.value)
    ELSE query_params

\* except ValueError as e: raised again, wrapped
Reraised(result) ==
    IF result.ok THEN result
    ELSE Threw(ValueError("Failed to parse query parameters: {e}",
                          <<result.exc.message>>, Some(result.exc)))

\* if parsed_dsn.query: the try block around the query parameters
ParseQuery(parsed_params, query) ==
    IF query # <<>> THEN Reraised(QueryParsed(parsed_params, parse_qs(query)))
    ELSE Returned(parsed_params)

\* if x: parsed_params[key] = x
AddIfTruthy(parsed_params, key, x) ==
    IF Truthy(x) THEN setitem(parsed_params, key, PyStr(x[1])) ELSE parsed_params

\* parsed_dsn.path.lstrip('/') if parsed_dsn.path and parsed_dsn.path.strip('/')
Database(path) ==
    IF path # <<>> /\ strip(path, "/") # <<>> THEN Some(lstrip(path, "/")) ELSE None

\* parsed_params after the optional user, password and database
WithOptional(parsed_dsn, parsed_params) ==
    AddIfTruthy(AddIfTruthy(AddIfTruthy(parsed_params,
                                        "user", username(parsed_dsn)),
                            "password", password(parsed_dsn)),
                "database", Database(parsed_dsn.path))

\* parse_params_from_dsn from the host and port checks on
FromParts(parsed_dsn, host, port_number) ==
    IF host = None
    THEN Threw(ValueError("Host is required in DSN", <<>>, None))
    ELSE IF ~port_number.ok
    THEN port_number
    ELSE IF port_number.value \in {None, Some(0)}
    THEN Threw(ValueError("Port is required in DSN", <<>>, None))
    ELSE ParseQuery(WithOptional(parsed_dsn, [host |-> PyStr(host[1]),
                                              port |-> PyInt(port_number.value[1])]),
                    parsed_dsn.query)

\* parse_params_from_dsn after urlparse
FromUrl(parsed) ==
    IF ~parsed.ok
    THEN Threw(ValueError("Failed to parse DSN: {e}", <<parsed.exc.message>>,
                          Some(parsed.exc)))
    ELSE FromParts(parsed.value, hostname(parsed.value), port(parsed.value))

parse_params_from_dsn(dsn) ==
    IF ~startswith(dsn, MysqlPrefix)
    THEN Threw(ValueError("DSN string must start with mysql://", <<>>, None))
    ELSE FromUrl(urlparse(dsn))

\* int(value): a str by its literal, a bool as 0 or 1, an int as itself;
\* ValueError for a str that is no literal, TypeError for None
int(value) ==
    CASE value.type = "int" -> Returned(value.int)
      [] value.type = "bool" -> Returned(IF value.bool THEN 1 ELSE 0)
      [] value.type = "str" ->
            IF IsIntLiteral(value.str) THEN Returned(IntOfStr(value.str))
            ELSE Threw(Exception("ValueError",
                                 Message("invalid literal for int() with base 10: {x!r}",
                                         <<value>>), None))
      [] OTHER ->
            Threw(Exception("TypeError",
                            Message("int() argument must be a string, a bytes-like object or a real number, not {type!r}",
                                    <<PyStr(<<"N", "o", "n", "e", "T", "y", "p", "e">>)>>), None))

\* the strings the boolean parameters read as true
TrueStrings ==
    {<<"t", "r", "u", "e">>, <<"1">>, <<"y", "e", "s">>, <<"o", "n">>}

\* IsTrue without the lower-casing
IsTrueCaseSensitive(s) == s \in TrueStrings

\* param_value.lower() in ('true', '1', 'yes', 'on')
IsTrue(s) == lower(s) \in TrueStrings

\* the loop over BOOLEAN_PARAM_KEYS, a set, in the order `order` its
\* iteration takes: a str becomes a bool, a bool stays, anything else raises
RECURSIVE CoerceBooleans(_, _)
CoerceBooleans(validated_params, order) ==
    IF order = <<>> THEN [validated_params |-> validated_params,
                          result |-> Returned(validated_params)]
    ELSE
    LET param == Head(order) IN
    IF param \notin DOMAIN validated_params
    THEN CoerceBooleans(validated_params, Tail(order))
    ELSE
    LET param_value == validated_params[param] IN
    IF param_value.type = "str"
    THEN CoerceBooleans(setitem(validated_params, param,
                                PyBool(IsTrue(param_value.str))), Tail(order))
    ELSE IF param_value.type # "bool"
    THEN [validated_params |-> validated_params,
          result |-> Threw(ValueError("Invalid value for boolean parameter '{param}': {param_value}",
                                      <<PyStr(KeyChars[param]), param_value>>, None))]
    ELSE CoerceBooleans(validated_params, Tail(order))

\* validate_parsed_params from the port converted by int() on
WithPort(validated_params, order, n) ==
    IF ~n.ok
    THEN [validated_params |-> validated_params,
          result |-> Threw(ValueError("Invalid port value: {validated_params.get('port')}",
                                      <<validated_params.port>>, Some(n.exc)))]
    ELSE IF ~(1 <= n.value /\ n.value <= 65535)
    THEN [validated_params |-> setitem(validated_params, "port", PyInt(n.value)),
          result |-> Threw(ValueError("Port must be between 1 and 65535, got: {validated_params['port']}",
                                      <<PyInt(n.value)>>, None))]
    ELSE CoerceBooleans(setitem(validated_params, "port", PyInt(n.value)), order)

\* the body of validate_parsed_params on validated_params: the mapping as
\* the function leaves it and what the function returns or raises
Validate(validated_params, order) ==
    WithPort(validated_params, order, int(validated_params.port))

\* validate_parsed_params working on params_dict itself, not on a copy
validate_parsed_paramsInPlace(params_dict, order) ==
    [params_dict |-> Validate(params_dict, order).validated_params,
     result |-> Validate(params_dict, order).result]

\* validate_parsed_params(params_dict): the caller's mapping after the call
\* and the result; the function works on params_dict.copy()
validate_parsed_params(params_dict, order) ==
    [params_dict |-> params_dict,
     result |-> Validate(params_dict, order).result]

\* the orders in which a set of three strings can be iterated
Orders ==
    {o \in [1..3 -> BOOLEAN_PARAM_KEYS] : \A i, j \in 1..3 : o[i] = o[j] => i = j}

\* ConnectError raised without its cause
ConnectErrorNoCause(dsn, exc) ==
    Exception("ConnectError",
              Message("Failed to connect to the database\nIs your database server running on '{self.config.dsn}'?",
                      <<PyStr(dsn)>>),
              None)

\* ConnectError(...) from exc
ConnectError(dsn, exc) ==
    Exception("ConnectError",
              Message("Failed to connect to the database\nIs your database server running on '{self.config.dsn}'?",
                      <<PyStr(dsn)>>),
              Some(exc))

\* the outcomes of mysql.connect(**connection_params): a live connection or
\* an error of the driver
DriverOutcomes == {"connected", "InterfaceError"}

\* the connection parameters passed on as validated
AutocommitAsGiven(connection_params) == connection_params

\* if 'autocommit' not in connection_params: connection_params['autocommit'] = True
AutocommitDefault(connection_params) ==
    IF "autocommit" \notin DOMAIN connection_params
    THEN setitem(connection_params, "autocommit", PyBool(TRUE))
    ELSE connection_params

\* validate_parsed_params(params), reached when parse_params_from_dsn returned
Validated(params, order) ==
    IF params.ok THEN validate_parsed_params(params.value, order).result
    ELSE params

\* the rest of the try block and the except clause: any exception of the
\* parsing, of the validation or of the driver raises ConnectError from it
Connecting(dsn, validated, driver) ==
    IF ~validated.ok THEN Threw(ConnectError(dsn, validated.exc))
    ELSE IF driver # "connected"
    THEN Threw(ConnectError(dsn, Exception(driver, Message("{driver}", <<>>), None)))
    ELSE Returned([connection_params |-> AutocommitDefault(validated.value)])

\* MySQLProvider.connect() with self.config.dsn = dsn: the live connection,
\* known by the parameters it was opened with, or the ConnectError
connect(dsn, order, driver) ==
    Connecting(dsn, Validated(parse_params_from_dsn(dsn), order), driver)

\* ------------------------------------------------------------------ descriptors
\* A descriptor as it is written:
\*   scheme://[user[:password]@]host:port[/database][?key=value&...]
\* user, password, port and query are absent (None) or present, possibly
\* empty; a query is a list of fields, each a key and, after the =, a value.
Descriptor(scheme, user, pass, host, port_text, path, query) ==
    [scheme |-> scheme, user |-> user, password |-> pass, host |-> host,
     port |-> port_text, path |-> path, query |-> query]

\* key=value, or key alone
Field(key, value) == [key |-> key, value |-> value]

FieldText(field) ==
    field.key \o (IF field.value = None THEN <<>> ELSE <<"=">> \o field.value[1])

RECURSIVE QueryText(_)
QueryText(fields) ==
    IF fields = <<>> THEN <<>>
    ELSE IF Len(fields) = 1 THEN FieldText(Head(fields))
    ELSE FieldText(Head(fields)) \o <<"&">> \o QueryText(Tail(fields))

\* the descriptor string
Render(d) ==
    d.scheme
    \o (IF d.user = None THEN <<>> ELSE d.user[1])
    \o (IF d.password = None THEN <<>> ELSE <<":">> \o d.password[1])
    \o (IF d.user = None /\ d.password = None THEN <<>> ELSE <<"@">>)
    \o d.host
    \o (IF d.port = None THEN <<>> ELSE <<":">> \o d.port[1])
    \o d.path
    \o (IF d.query = None THEN <<>> ELSE <<"?">> \o QueryText(d.query[1]))

U == <<"u">>
P == <<"p">>
H == <<"h">>
D == <<"d">>
K == <<"k">>
V == <<"v">>
W == <<"w">>
On == <<"O", "n">>
False == <<"f", "a", "l", "s", "e">>
Port1 == <<"1">>

\* the descriptors the provider of the engine is configured with: one that
\* leaves autocommit out, one that sets it on, one that sets it off
EngineDescriptors ==
    {Descriptor(MysqlPrefix, Some(U), Some(P), H, Some(Port1), <<"/">> \o D, q) :
        q \in {None,
               Some(<<Field(KeyChars.autocommit, Some(On))>>),
               Some(<<Field(KeyChars.autocommit, Some(False))>>)}}

DefaultDescriptor ==
    Descriptor(MysqlPrefix, Some(U), Some(P), H, Some(Port1), <<"/">> \o D, None)

\* connect() for each of them with the driver connecting: a function of the
\* descriptor alone, computed anew by every call
Connected ==
    [dsn \in {Render(d) : d \in EngineDescriptors} |->
        connect(dsn, CHOOSE order \in Orders : TRUE, "connected")]

\* the autocommit mode of the connections of the provider; the driver's own
\* default is off
AutocommitMode(connection_params) ==
    IF "autocommit" \in DOMAIN connection_params
    THEN connection_params.autocommit.bool
    ELSE FALSE

\* the autocommit mode of the provider as it is configured
Autocommit == AutocommitMode(Connected[config.dsn].value.connection_params)

\* ------------------------------------------------------------------ SQL
\* The database as the statements see it.
DB == [exists |-> tableExists, rows |-> table]

Result(exists, rows, err, rowcount) ==
    [exists |-> exists, rows |-> rows, err |-> err, rowcount |-> rowcount]

HasRow(rows, id) == \E r \in rows : r.revision_id = id

\* SqlCreateTable without IF NOT EXISTS
SqlCreateTableStrict(db) ==
    IF db.exists THEN Result(db.exists, db.rows, "ProgrammingError", 0)
    ELSE Result(TRUE, {}, "none", 0)

\* CREATE TABLE IF NOT EXISTS ... (revision_id VARCHAR(255) PRIMARY KEY NOT NULL, ...)
SqlCreateTable(db) ==
    Result(TRUE, IF db.exists THEN db.rows ELSE {}, "none", 0)

\* DROP TABLE IF EXISTS ...
SqlDropTable(db) == Result(FALSE, {}, "none", 0)

\* SqlInsert with no primary key on revision_id
SqlInsertNoKey(db, row) ==
    IF ~db.exists THEN Result(db.exists, db.rows, "ProgrammingError", 0)
    ELSE Result(db.exists, db.rows \cup {row}, "none", 1)

\* INSERT INTO ... VALUES (...): the table must exist, revision_id is its primary key
SqlInsert(db, row) ==
    IF ~db.exists THEN Result(db.exists, db.rows, "ProgrammingError", 0)
    ELSE IF HasRow(db.rows, row.revision_id)
        THEN Result(db.exists, db.rows, "IntegrityError", 0)
    ELSE Result(db.exists, db.rows \cup {row}, "none", 1)

\* SqlDelete with the WHERE clause lost
SqlDeleteAll(db, id) ==
    IF ~db.exists THEN Result(db.exists, db.rows, "ProgrammingError", 0)
    ELSE Result(db.exists, {}, "none", Cardinality(db.rows))

\* SqlDelete reporting one row whatever it deleted
SqlDeleteCountsOne(db, id) ==
    IF ~db.exists THEN Result(db.exists, db.rows, "ProgrammingError", 0)
    ELSE Result(db.exists, {r \in db.rows : r.revision_id # id}, "none", 1)

\* DELETE FROM ... WHERE revision_id = %(revision_id)s
SqlDelete(db, id) ==
    IF ~db.exists THEN Result(db.exists, db.rows, "ProgrammingError", 0)
    ELSE LET gone == {r \in db.rows : r.revision_id = id} IN
         Result(db.exists, db.rows \ gone, "none", Cardinality(gone))

\* (tags IS NOT NULL AND (tags = t OR tags LIKE 't,%' OR tags LIKE '%,t'
\*                        OR tags LIKE '%,t,%'))
TagCondition(col, tag) ==
    /\ col # None
    /\ \/ col[1] = tag
       \/ Like(col[1], tag \o <<",", "%">>)
       \/ Like(col[1], <<"%", ",">> \o tag)
       \/ Like(col[1], <<"%", ",">> \o tag \o <<",", "%">>)

\* The WHERE clause list_migrations builds: a condition is added for a truthy
\* author, a truthy tags list, a given created_at.
Where(row, flt) ==
    /\ Truthy(flt.author) => (row.author # None /\ row.author[1] = flt.author[1])
    /\ Truthy(flt.tags) =>
           \E i \in 1..Len(flt.tags[1]) : TagCondition(row.tags, flt.tags[1][i])
    /\ flt.created_at # None => row.created_at >= flt.created_at[1]

\* ORDER BY created_at DESC: every order of the rows with created_at not
\* increasing (rows with equal created_at come in any order).
OrderedDesc(rows) ==
    LET n == Cardinality(rows) IN
    { s \in [1..n -> rows] :
        /\ \A i, j \in 1..n : i # j => s[i] # s[j]
        /\ \A i \in 1..n : i < n => s[i].created_at >= s[i + 1].created_at }

\* The Revision built from a fetched row.
Decode(row) ==
    [revision_id |-> row.revision_id,
     tags |-> DecodeTags(row.tags),
     author |-> row.author,
     created_at |-> row.created_at]

DecodeAll(rows) == [i \in 1..Len(rows) |-> Decode(rows[i])]

\* The parameters of the INSERT of migrate_up.
InsertParams(revision, t) ==
    [revision_id |-> revision.revision_id,
     tags |-> EncodeTags(revision.tags),
     author |-> revision.author,
     created_at |-> t]

\* ------------------------------------------------------------------ calls
Ok(op, value) == [op |-> op, status |-> "ok", value |-> value]
Failed(op, err) == [op |-> op, status |-> err]
\* an exception raised by the statement at `at` (the traceback names it)
Raised(op, err, at) == [op |-> op, status |-> err, at |-> at]

OpOf(p) ==
    CASE pc[p] = "create" -> "create_table_migration"
      [] pc[p] = "drop" -> "drop_table_migration"
      [] pc[p] = "select_head" -> "get_head_revision"
      [] pc[p] \in {"up_sql", "insert"} -> "migrate_up"
      [] pc[p] \in {"down_sql", "delete"} -> "migrate_down"
      [] pc[p] = "select_list" -> "list_migrations"

\* `with self.connect() as connection:` entered: the connection is open
Enter(p, first, a) ==
    /\ pc[p] = "idle"
    /\ UNCHANGED config
    /\ pc' = [pc EXCEPT ![p] = first]
    /\ arg' = [arg EXCEPT ![p] = a]
    /\ conn' = [conn EXCEPT ![p] = @ + 1]
    /\ ret' = [ret EXCEPT ![p] = NoRet]

\* the `with` block is left by a return: the connection is closed
Return(p, value) ==
    /\ UNCHANGED config
    /\ pc' = [pc EXCEPT ![p] = "idle"]
    /\ arg' = [arg EXCEPT ![p] = NoArg]
    /\ conn' = [conn EXCEPT ![p] = @ - 1]
    /\ ret' = [ret EXCEPT ![p] = Ok(OpOf(p), value)]

\* Raise with the connection left open
RaiseLeak(p, err) ==
    /\ UNCHANGED config
    /\ pc' = [pc EXCEPT ![p] = "idle"]
    /\ arg' = [arg EXCEPT ![p] = NoArg]
    /\ conn' = conn
    /\ ret' = [ret EXCEPT ![p] = Raised(OpOf(p), err, pc[p])]

\* the `with` block is left by an exception: the connection is closed, the
\* exception goes on to the caller
Raise(p, err) ==
    /\ UNCHANGED config
    /\ pc' = [pc EXCEPT ![p] = "idle"]
    /\ arg' = [arg EXCEPT ![p] = NoArg]
    /\ conn' = [conn EXCEPT ![p] = @ - 1]
    /\ ret' = [ret EXCEPT ![p] = Raised(OpOf(p), err, pc[p])]

\* cursor.execute(...) of the next statement: the database after it
Commit(res) ==
    /\ tableExists' = res.exists
    /\ table' = res.rows

\* cursor.execute(...) of an INSERT or a DELETE, the last statement before the
\* connection is closed: with autocommit its change is committed, without it
\* the change is rolled back when the connection closes (nothing in the code
\* calls connection.commit())
CommitRows(res) ==
    IF Autocommit THEN Commit(res)
    ELSE UNCHANGED <<tableExists, table>>

\* SqlSelectHead with the ORDER BY lost
SqlSelectHeadUnordered(db) == db.rows

\* SELECT * ... ORDER BY created_at DESC LIMIT 1, cursor.fetchone(): the
\* rows fetchone can return
SqlSelectHead(db) == {s[1] : s \in {t \in OrderedDesc(db.rows) : t # <<>>}}

\* SELECT * ... [WHERE ...] ORDER BY created_at DESC, cursor.fetchall(): the
\* row lists fetchall can return
SqlSelectList(db, flt) == OrderedDesc({r \in db.rows : Where(r, flt)})

\* ------------------------------------------------------------------ operations
create_table_migration(p) ==
    /\ Enter(p, "create", NoArg)
    /\ UNCHANGED <<tableExists, table, schema, now>>

ExecCreate(p) ==
    /\ pc[p] = "create"
    /\ LET res == SqlCreateTable(DB) IN
       /\ Commit(res)
       /\ IF res.err = "none" THEN Return(p, None) ELSE Raise(p, res.err)
    /\ UNCHANGED <<schema, now>>

drop_table_migration(p) ==
    /\ Enter(p, "drop", NoArg)
    /\ UNCHANGED <<tableExists, table, schema, now>>

ExecDrop(p) ==
    /\ pc[p] = "drop"
    /\ LET res == SqlDropTable(DB) IN
       /\ Commit(res)
       /\ IF res.err = "none" THEN Return(p, None) ELSE Raise(p, res.err)
    /\ UNCHANGED <<schema, now>>

get_head_revision(p) ==
    /\ Enter(p, "select_head", NoArg)
    /\ UNCHANGED <<tableExists, table, schema, now>>

ExecSelectHead(p) ==
    /\ pc[p] = "select_head"
    /\ IF ~tableExists THEN Raise(p, "ProgrammingError")
       ELSE IF SqlSelectHead(DB) = {} THEN Return(p, None)
       ELSE \E row \in SqlSelectHead(DB) : Return(p, Some(Decode(row)))
    /\ UNCHANGED <<tableExists, table, schema, now>>

\* migrate_up going straight to the bookkeeping write
migrate_upWriteFirst(p, revision) ==
    /\ Enter(p, "insert", revision)
    /\ UNCHANGED <<tableExists, table, schema, now>>

migrate_up(p, revision) ==
    /\ Enter(p, IF revision.up_sql THEN "up_sql" ELSE "insert", revision)
    /\ UNCHANGED <<tableExists, table, schema, now>>

\* ExecUpSql looking the revision up first and leaving its statement out when
\* the tracking table has its row
ExecUpSqlOnce(p) ==
    /\ pc[p] = "up_sql"
    /\ schema' = IF \E r \in table : r.revision_id = arg[p].revision_id
                 THEN schema
                 ELSE [schema EXCEPT ![arg[p].revision_id] = TRUE]
    /\ pc' = [pc EXCEPT ![p] = "insert"]
    /\ UNCHANGED <<tableExists, table, now, arg, conn, ret, config>>

\* cursor.execute(revision.up_sql): the forward change takes effect
ExecUpSql(p) ==
    /\ pc[p] = "up_sql"
    /\ schema' = [schema EXCEPT ![arg[p].revision_id] = TRUE]
    /\ pc' = [pc EXCEPT ![p] = "insert"]
    /\ UNCHANGED <<tableExists, table, now, arg, conn, ret, config>>

ExecInsert(p) ==
    /\ pc[p] = "insert"
    /\ LET res == SqlInsert(DB, InsertParams(arg[p], now)) IN
       /\ CommitRows(res)
       /\ IF res.err = "none" THEN Return(p, res.rowcount) ELSE Raise(p, res.err)
    /\ UNCHANGED <<schema, now>>

migrate_down(p, revision) ==
    /\ Enter(p, IF revision.down_sql THEN "down_sql" ELSE "delete", revision)
    /\ UNCHANGED <<tableExists, table, schema, now>>

\* cursor.execute(revision.down_sql): the forward change is undone
ExecDownSql(p) ==
    /\ pc[p] = "down_sql"
    /\ schema' = [schema EXCEPT ![arg[p].revision_id] = FALSE]
    /\ pc' = [pc EXCEPT ![p] = "delete"]
    /\ UNCHANGED <<tableExists, table, now, arg, conn, ret, config>>

ExecDelete(p) ==
    /\ pc[p] = "delete"
    /\ LET res == SqlDelete(DB, arg[p].revision_id) IN
       /\ CommitRows(res)
       /\ IF res.err = "none" THEN Return(p, res.rowcount) ELSE Raise(p, res.err)
    /\ UNCHANGED <<schema, now>>

list_migrations(p, flt) ==
    /\ Enter(p, "select_list", flt)
    /\ UNCHANGED <<tableExists, table, schema, now>>

ExecSelectList(p) ==
    /\ pc[p] = "select_list"
    /\ IF ~tableExists THEN Raise(p, "ProgrammingError")
       ELSE \E rows \in SqlSelectList(DB, arg[p]) : Return(p, DecodeAll(rows))
    /\ UNCHANGED <<tableExists, table, schema, now>>

\* StatementFails undoing the revision's own statement when the bookkeeping
\* write fails (one transaction around both)
StatementFailsUndoes(p) ==
    /\ pc[p] # "idle"
    /\ Raise(p, "OperationalError")
    /\ schema' = IF pc[p] \in {"insert", "delete"}
                 THEN [schema EXCEPT ![arg[p].revision_id] = (pc[p] = "delete")]
                 ELSE schema
    /\ UNCHANGED <<tableExists, table, now>>

\* The driver fails the statement a call is about to execute (the server is
\* gone, a lock wait times out, the SQL is rejected): nothing is changed.
StatementFails(p) ==
    /\ pc[p] # "idle"
    /\ Raise(p, "OperationalError")
    /\ UNCHANGED <<tableExists, table, schema, now>>

Ops == {"create_table_migration", "drop_table_migration", "get_head_revision",
        "migrate_up", "migrate_down", "list_migrations"}

\* self.connect() raises ConnectError: the `with` block is never entered
ConnectFails(p, op) ==
    /\ pc[p] = "idle"
    /\ ret' = [ret EXCEPT ![p] = Failed(op, "ConnectError")]
    /\ UNCHANGED <<tableExists, table, schema, now, pc, arg, conn, config>>

\* ------------------------------------------------------------------ clock
\* The wall clock moves on, or is set back (datetime.now() is not monotonic).
Tick ==
    /\ now < MaxClock
    /\ now' = now + 1
    /\ UNCHANGED <<tableExists, table, schema, pc, arg, conn, ret, config>>

ClockSetBack ==
    /\ now > 0
    /\ now' \in 0..(now - 1)
    /\ UNCHANGED <<tableExists, table, schema, pc, arg, conn, ret, config>>

\* ------------------------------------------------------------------ inputs
X == <<"x">>
Y == <<"y">>
Alice == <<"a">>
Bob == <<"b">>

Revision(id, tags, author, up_sql, down_sql) ==
    [kind |-> "revision", revision_id |-> id, tags |-> tags, author |-> author,
     up_sql |-> up_sql, down_sql |-> down_sql]

Filter(author, tags, created_at) ==
    [kind |-> "filter", author |-> author, tags |-> tags, created_at |-> created_at]

\* Two concurrent runners: r1 carries both statements, r2 is bookkeeping-only.
Revisions ==
    { Revision("r1", Some(<<X>>), Some(Alice), TRUE, TRUE),
      Revision("r2", None, None, FALSE, FALSE) }

Filters == { Filter(None, None, None) }

Init ==
    /\ tableExists = FALSE
    /\ table = {}
    /\ schema = [id \in RevIds |-> FALSE]
    /\ now = 0
    /\ pc = [p \in Procs |-> "idle"]
    /\ arg = [p \in Procs |-> NoArg]
    /\ conn = [p \in Procs |-> 0]
    /\ ret = [p \in Procs |-> NoRet]
    /\ config = [dsn |-> Render(DefaultDescriptor)]

Next ==
    \/ \E p \in Procs :
        \/ create_table_migration(p)
        \/ ExecCreate(p)
        \/ drop_table_migration(p)
        \/ ExecDrop(p)
        \/ get_head_revision(p)
        \/ ExecSelectHead(p)
        \/ \E revision \in Revisions : migrate_up(p, revision)
        \/ ExecUpSql(p)
        \/ ExecInsert(p)
        \/ \E revision \in Revisions : migrate_down(p, revision)
        \/ ExecDownSql(p)
        \/ ExecDelete(p)
        \/ \E flt \in Filters : list_migrations(p, flt)
        \/ ExecSelectList(p)
        \/ StatementFails(p)
        \/ \E op \in Ops : ConnectFails(p, op)
    \/ Tick
    \/ ClockSetBack

Spec == Init /\ [][Next]_vars

\* ------------------------------------------------------------------ migrate only
\* One runner calling migrate_up and migrate_down, in any order and with any
\* statement failing, on a tracking table that exists.
Runner == "p1"

InitMigrate ==
    /\ tableExists = TRUE
    /\ table = {}
    /\ schema = [id \in RevIds |-> FALSE]
    /\ now = 0
    /\ pc = [p \in Procs |-> "idle"]
    /\ arg = [p \in Procs |-> NoArg]
    /\ conn = [p \in Procs |-> 0]
    /\ ret = [p \in Procs |-> NoRet]
    /\ config = [dsn |-> Render(DefaultDescriptor)]

NextMigrate ==
    \/ \E revision \in Revisions : migrate_up(Runner, revision)
    \/ ExecUpSql(Runner)
    \/ ExecInsert(Runner)
    \/ \E revision \in Revisions : migrate_down(Runner, revision)
    \/ ExecDownSql(Runner)
    \/ ExecDelete(Runner)
    \/ StatementFails(Runner)
    \/ Tick
    \/ ClockSetBack

MigrateSpec == InitMigrate /\ [][NextMigrate]_vars

\* ------------------------------------------------------------------ queries
\* One runner filling the tracking table with revisions of many tag lists and
\* authors and querying it with every filter.
Z == <<"z">>
XY == <<"x", "y">>
Empty == <<>>
Underscore == <<"_">>

TagLists ==
    { None, Some(<<>>), Some(<<Empty>>), Some(<<X>>), Some(<<XY>>),
      Some(<<X, Y>>), Some(<<Y, X>>), Some(<<Y, X, Z>>), Some(<<Empty, X>>),
      Some(<<X, X>>) }

QueryRevisions ==
    { Revision("r1", tags, author, FALSE, FALSE) :
        tags \in TagLists, author \in {None, Some(Alice)} }
    \cup
    { Revision("r2", Some(<<X>>), author, FALSE, FALSE) :
        author \in {Some(Alice), Some(Bob)} }

QueryFilters ==
    { Filter(author, tags, created_at) :
        author \in {None, Some(Empty), Some(Alice)},
        tags \in {None, Some(<<>>), Some(<<X>>), Some(<<Z, Y>>),
                  Some(<<Empty>>), Some(<<Underscore>>)},
        created_at \in {None, Some(1)} }

NextQuery ==
    \/ create_table_migration(Runner)
    \/ ExecCreate(Runner)
    \/ \E revision \in QueryRevisions : migrate_up(Runner, revision)
    \/ ExecInsert(Runner)
    \/ \E revision \in QueryRevisions : migrate_down(Runner, revision)
    \/ ExecDelete(Runner)
    \/ get_head_revision(Runner)
    \/ ExecSelectHead(Runner)
    \/ \E flt \in QueryFilters : list_migrations(Runner, flt)
    \/ ExecSelectList(Runner)
    \/ Tick
    \/ ClockSetBack

QuerySpec == Init /\ [][NextQuery]_vars

\* ------------------------------------------------------------------ connecting
\* The descriptors and parameter mappings the three functions of the
\* connection layer are called with, one call in each behaviour.
OtherPrefix == <<"M", "y", "s", "q", "l", ":", "/", "/">>

Users == {None, Some(U), Some(<<>>)}
Passwords == {None, Some(P)}
Hosts == {<<>>, <<"H">>, <<"[", "h">>}
Ports ==
    {None, Some(<<>>), Some(<<"0">>), Some(Port1),
     Some(<<"6", "5", "5", "3", "6">>), Some(<<"x">>)}
Paths == {<<>>, <<"/">>, <<"/", "d">>, <<"/", "d", "/">>}

Queries ==
    {None,
     Some(<<>>),
     Some(<<Field(KeyChars.user, Some(V))>>),
     Some(<<Field(KeyChars.user, Some(<<>>))>>),
     Some(<<Field(K, Some(V))>>),
     Some(<<Field(K, Some(<<>>))>>),
     Some(<<Field(KeyChars.autocommit, Some(On))>>),
     Some(<<Field(KeyChars.password, Some(V)), Field(KeyChars.use_pure, Some(W))>>),
     Some(<<Field(KeyChars.user, Some(V)), Field(KeyChars.user, Some(W))>>),
     Some(<<Field(KeyChars.user, Some(V)), Field(KeyChars.user, Some(<<>>))>>),
     Some(<<Field(KeyChars.database, Some(V)), Field(K, Some(<<>>))>>),
     Some(<<Field(KeyChars.ssl_disabled, None)>>)}

Descriptors ==
    {Descriptor(MysqlPrefix, user, pass, host, port_text, path, query) :
        user \in Users, pass \in Passwords, host \in Hosts, port_text \in Ports,
        path \in Paths, query \in Queries}
    \union
    {Descriptor(OtherPrefix, None, None, host, port_text, <<>>, None) :
        host \in Hosts, port_text \in Ports}

\* port as a caller of validate_parsed_params can hand it in
PortValues ==
    {PyInt(3306), PyInt(0), PyInt(1), PyInt(65535), PyInt(65536), PyInt(70000),
     PyInt(0 - 1), PyStr(<<"3", "3", "0", "6">>), PyStr(<<"a", "b", "c">>),
     PyStr(<<>>), PyStr(<<"0">>), PyStr(<<" ", "8", "0">>), PyNone, PyBool(TRUE)}

BooleanValues ==
    {PyStr(<<"t", "r", "u", "e">>), PyStr(<<"T", "R", "U", "E">>), PyStr(<<"1">>),
     PyStr(<<"y", "e", "s">>), PyStr(On), PyStr(False), PyStr(<<"0">>), PyStr(<<>>),
     PyStr(<<"n", "o">>), PyBool(TRUE), PyBool(FALSE), PyInt(1), PyNone}

\* the mark of a key a mapping does not have
Absent == [type |-> "absent"]

ParamsInputs ==
    {LET all == [host |-> PyStr(H), port |-> port_value, user |-> PyStr(U),
                 autocommit |-> a, ssl_disabled |-> s, use_pure |-> u]
     IN  [k \in {k \in DOMAIN all : all[k] # Absent} |-> all[k]] :
        port_value \in PortValues,
        a \in BooleanValues \union {Absent},
        s \in {Absent, PyStr(<<"Y", "e", "s">>), PyInt(0)},
        u \in {Absent, PyBool(FALSE), PyNone}}

InitConnect ==
    /\ tableExists = FALSE
    /\ table = {}
    /\ schema = [id \in RevIds |-> FALSE]
    /\ now = 0
    /\ pc = [p \in Procs |-> "idle"]
    /\ conn = [p \in Procs |-> 0]
    /\ ret = [p \in Procs |-> NoRet]
    /\ \/ \E d \in Descriptors :
            /\ config = [dsn |-> Render(d)]
            /\ arg = [p \in Procs |-> IF p = Runner
                                      THEN [kind |-> "descriptor", descriptor |-> d]
                                      ELSE NoArg]
       \/ \E params_dict \in ParamsInputs :
            /\ config = [dsn |-> Render(DefaultDescriptor)]
            /\ arg = [p \in Procs |-> IF p = Runner
                                      THEN [kind |-> "params", given |-> params_dict,
                                            params_dict |-> params_dict]
                                      ELSE NoArg]

\* the outcome of a function of the connection layer
Outcome(op, result) ==
    [op |-> op, status |-> IF result.ok THEN "ok" ELSE result.exc.type,
     result |-> result]

\* parse_params_from_dsn(config.dsn)
CallParse(p) ==
    /\ pc[p] = "idle" /\ ret[p] = NoRet
    /\ arg[p].kind = "descriptor"
    /\ ret' = [ret EXCEPT ![p] = Outcome("parse_params_from_dsn",
                                          parse_params_from_dsn(config.dsn))]
    /\ UNCHANGED <<tableExists, table, schema, now, pc, arg, conn, config>>

\* validate_parsed_params(params_dict), the set BOOLEAN_PARAM_KEYS iterated
\* in any order
CallValidate(p) ==
    /\ pc[p] = "idle" /\ ret[p] = NoRet
    /\ arg[p].kind = "params"
    /\ \E order \in Orders :
        LET called == validate_parsed_params(arg[p].params_dict, order) IN
        /\ arg' = [arg EXCEPT ![p].params_dict = called.params_dict]
        /\ ret' = [ret EXCEPT ![p] = Outcome("validate_parsed_params", called.result)]
    /\ UNCHANGED <<tableExists, table, schema, now, pc, conn, config>>

\* provider.connect(), the driver connecting or not
CallConnect(p) ==
    /\ pc[p] = "idle" /\ ret[p] = NoRet
    /\ arg[p].kind = "descriptor"
    /\ \E order \in Orders, driver \in DriverOutcomes :
        LET connection == connect(config.dsn, order, driver) IN
        /\ ret' = [ret EXCEPT ![p] = Outcome("connect", connection)]
        /\ conn' = [conn EXCEPT ![p] = IF connection.ok THEN @ + 1 ELSE @]
    /\ UNCHANGED <<tableExists, table, schema, now, pc, arg, config>>

NextConnect ==
    \/ CallParse(Runner)
    \/ CallValidate(Runner)
    \/ CallConnect(Runner)

ConnectSpec == InitConnect /\ [][NextConnect]_vars

\* ------------------------------------------------------------------ autocommit
\* One runner making every call of the provider, the provider configured
\* with a descriptor that leaves autocommit out, sets it on or sets it off.
InitAutocommit ==
    /\ tableExists = TRUE
    /\ table = {}
    /\ schema = [id \in RevIds |-> FALSE]
    /\ now = 0
    /\ pc = [p \in Procs |-> "idle"]
    /\ arg = [p \in Procs |-> NoArg]
    /\ conn = [p \in Procs |-> 0]
    /\ ret = [p \in Procs |-> NoRet]
    /\ \E d \in EngineDescriptors : config = [dsn |-> Render(d)]

NextAutocommit ==
    \/ create_table_migration(Runner)
    \/ ExecCreate(Runner)
    \/ drop_table_migration(Runner)
    \/ ExecDrop(Runner)
    \/ get_head_revision(Runner)
    \/ ExecSelectHead(Runner)
    \/ \E revision \in Revisions : migrate_up(Runner, revision)
    \/ ExecUpSql(Runner)
    \/ ExecInsert(Runner)
    \/ \E revision \in Revisions : migrate_down(Runner, revision)
    \/ ExecDownSql(Runner)
    \/ ExecDelete(Runner)
    \/ \E flt \in Filters : list_migrations(Runner, flt)
    \/ ExecSelectList(Runner)
    \/ StatementFails(Runner)
    \/ \E op \in Ops : ConnectFails(Runner, op)
    \/ Tick
    \/ ClockSetBack

AutocommitSpec == InitAutocommit /\ [][NextAutocommit]_vars

\* ------------------------------------------------------------------ claims
Quiescent == \A p \in Procs : pc[p] = "idle"

\* p's step executes the statement at `at` and ends its call
Ends(p, at) == pc[p] = at /\ pc'[p] = "idle"
\* ... with a normal return
Returns(p, at) == Ends(p, at) /\ ret'[p].status = "ok"

Others(rows, id) == {r \in rows : r.revision_id # id}

\* C1: between calls of migrate_up and migrate_down on an existing table, the
\* row of a revision that carries both statements is in the tracking table
\* exactly when its forward change is in effect.
C1_RowIffApplied ==
    (tableExists /\ Quiescent) =>
        \A revision \in Revisions :
            (revision.up_sql /\ revision.down_sql) =>
                (HasRow(table, revision.revision_id) <=> schema[revision.revision_id])

\* C2: no two rows of the tracking table have the same revision_id, whatever
\* the runners do (repeated and concurrent migrate_up of one revision included).
C2_RevisionIdUnique ==
    \A a, b \in table : a.revision_id = b.revision_id => a = b

\* Two runners have applied the same revision: one insert went in, the other
\* was refused on the primary key.
C2_Witness ==
    /\ Cardinality(table) = 1
    /\ ret["p1"] = Ok("migrate_up", 1)
    /\ ret["p2"] = Raised("migrate_up", "IntegrityError", "insert")

\* C3: a successful migrate_up(r) on a table with no row for r adds the row of
\* r and nothing else, and the DELETE of migrate_down(r) run on the table it
\* leaves gives back the table as it was; a migrate_down(r) that deletes a row
\* leaves no row for r and every other row as it was.
C3_UpThenDownRestores ==
    [][\A p \in Procs :
        /\ Returns(p, "insert") =>
              LET id == arg[p].revision_id
                  down == SqlDelete([exists |-> tableExists', rows |-> table'], id)
              IN /\ ~HasRow(table, id)
                 /\ HasRow(table', id)
                 /\ Others(table', id) = table
                 /\ down.err = "none"
                 /\ down.rowcount = 1
                 /\ ~HasRow(down.rows, id)
                 /\ down.rows = table
        /\ Returns(p, "delete") =>
              LET id == arg[p].revision_id
              IN /\ ~HasRow(table', id)
                 /\ Others(table', id) = Others(table, id)
      ]_vars

\* A migrate_down has deleted the row a migrate_up had inserted, and another
\* revision's row is still there.
C3_Witness ==
    /\ \E p \in Procs : ret[p] = Ok("migrate_down", 1)
    /\ Cardinality(table) = 1

\* C4: migrate_up and migrate_down return the number of rows their bookkeeping
\* statement changed: 1 for a successful migrate_up; for migrate_down 1 when
\* the row of the revision was there and 0, with the table unchanged, when not.
C4_ReturnsRowCount ==
    [][\A p \in Procs :
        /\ Returns(p, "insert") =>
              /\ ret'[p].value = 1
              /\ Cardinality(table' \ table) = 1
        /\ Returns(p, "delete") =>
              /\ ret'[p].value = IF HasRow(table, arg[p].revision_id) THEN 1 ELSE 0
              /\ ret'[p].value = Cardinality(table \ table')
              /\ ~HasRow(table, arg[p].revision_id) => table' = table
      ]_vars

\* One migrate_down found no row and returned 0, another deleted one and
\* returned 1.
C4_Witness ==
    /\ tableExists
    /\ ret["p1"] = Ok("migrate_down", 0)
    /\ ret["p2"] = Ok("migrate_down", 1)

\* C5: on an existing table get_head_revision returns None when there is no
\* row, and otherwise the Revision of a row whose created_at is the greatest
\* of the table; it raises only what the driver raises.
C5_HeadIsLatest ==
    [][\A p \in Procs :
        (Ends(p, "select_head") /\ tableExists
            /\ ret'[p].status # "OperationalError") =>
              /\ ret'[p].status = "ok"
              /\ IF table = {} THEN ret'[p].value = None
                 ELSE /\ ret'[p].value # None
                      /\ \E row \in table :
                            /\ Decode(row) = ret'[p].value[1]
                            /\ \A o \in table : o.created_at <= row.created_at
      ]_vars

\* get_head_revision has returned, of two rows with different created_at,
\* the one with the greater.
C5_Witness ==
    /\ Quiescent
    /\ \E p \in Procs, a, b \in table :
          /\ a.created_at > b.created_at
          /\ ret[p].op = "get_head_revision"
          /\ ret[p].status = "ok"
          /\ ret[p].value = Some(Decode(a))

\* C9: create_table_migration succeeds whether or not the table exists and
\* keeps the rows of an existing table; drop_table_migration succeeds whether
\* or not it exists; a second run of either changes nothing more.
C9_DdlIdempotent ==
    [][\A p \in Procs :
        /\ (Ends(p, "create") /\ ret'[p].status # "OperationalError") =>
              LET after == [exists |-> tableExists', rows |-> table']
                  again == SqlCreateTable(after)
              IN /\ ret'[p].status = "ok"
                 /\ tableExists'
                 /\ table' = IF tableExists THEN table ELSE {}
                 /\ again.err = "none"
                 /\ again.exists = tableExists' /\ again.rows = table'
        /\ (Ends(p, "drop") /\ ret'[p].status # "OperationalError") =>
              LET after == [exists |-> tableExists', rows |-> table']
                  again == SqlDropTable(after)
              IN /\ ret'[p].status = "ok"
                 /\ ~tableExists'
                 /\ again.err = "none"
                 /\ again.exists = tableExists' /\ again.rows = table'
      ]_vars

\* Both runners' last call was a create_table_migration that succeeded, and
\* the rows inserted before are still there.
C9_Witness ==
    /\ table # {}
    /\ \A p \in Procs : ret[p] = Ok("create_table_migration", None)

\* C10: a runner holds exactly one connection while a call of its is under
\* way and none once the call has ended, by a return or by an exception.
C10_ConnectionReleased ==
    \A p \in Procs : conn[p] = IF pc[p] = "idle" THEN 0 ELSE 1

\* One call has ended by a return and one by an exception, and neither runner
\* holds a connection.
C10_Witness ==
    /\ ret["p1"].status = "ok"
    /\ ret["p2"].status \in {"IntegrityError", "ProgrammingError", "OperationalError"}
    /\ \A p \in Procs : conn[p] = 0

\* The tags of a stored row, element by element.
Elements(col) ==
    IF col = None THEN {} ELSE {split(col[1])[k] : k \in 1..Len(split(col[1]))}

\* The tags a caller passed, as a set.
TagSet(tags) == IF tags = None THEN {} ELSE {tags[1][k] : k \in 1..Len(tags[1])}

\* A row matches a filter: every filter given (not None, not empty) holds of it.
Matches(row, flt) ==
    /\ Truthy(flt.author) => row.author = flt.author
    /\ Truthy(flt.tags) => TagSet(flt.tags) \cap Elements(row.tags) # {}
    /\ flt.created_at # None => row.created_at >= flt.created_at[1]

\* C6: list_migrations returns the rows that match every filter given, each
\* once, latest created_at first; all rows when no filter is given.
C6_ListReturnsMatches ==
    [][\A p \in Procs :
        (Ends(p, "select_list") /\ tableExists
            /\ ret'[p].status # "OperationalError") =>
              LET want == {r \in table : Matches(r, arg[p])}
                  got == ret'[p].value
              IN /\ ret'[p].status = "ok"
                 /\ Len(got) = Cardinality(want)
                 /\ {got[i] : i \in 1..Len(got)} = {Decode(r) : r \in want}
                 /\ \A i \in 1..Len(got) :
                       i < Len(got) => got[i].created_at >= got[i + 1].created_at
      ]_vars

\* C7: with only tags given, list_migrations returns a row exactly when one of
\* the requested tags is a whole element of the row's stored tag string.
C7_TagFilterIsMembership ==
    [][\A p \in Procs :
        (Returns(p, "select_list") /\ Truthy(arg[p].tags)
            /\ ~Truthy(arg[p].author) /\ arg[p].created_at = None) =>
              \A r \in table :
                  (\E i \in 1..Len(ret'[p].value) : ret'[p].value[i] = Decode(r))
                      <=> (TagSet(arg[p].tags) \cap Elements(r.tags) # {})
      ]_vars

\* C8: the row migrate_up writes decodes to the tags of the revision it was
\* given, as a set; no tags or an empty tag list are stored as NULL.
C8_TagsRoundTrip ==
    [][\A p \in Procs :
        Returns(p, "insert") =>
            \A row \in table' \ table :
                /\ LET tags == Decode(row).tags
                   IN {tags[k] : k \in 1..Len(tags)} = TagSet(arg[p].tags)
                /\ TagSet(arg[p].tags) = {} => row.tags = None
      ]_vars

\* C17: a revision's own statement, when it has one, runs before the
\* bookkeeping write: the call starts at it, the write is reached only once it
\* has taken effect, and when it fails the call ends there with the exception,
\* the write not attempted and the tracking table as it was.
C17_SchemaStatementFirst ==
    [][/\ \A revision \in Revisions :
            /\ (pc[Runner] = "idle" /\ pc'[Runner] \in {"up_sql", "insert"}
                  /\ arg'[Runner] = revision) =>
                  /\ pc'[Runner] = (IF revision.up_sql THEN "up_sql" ELSE "insert")
                  /\ table' = table
            /\ (pc[Runner] = "idle" /\ pc'[Runner] \in {"down_sql", "delete"}
                  /\ arg'[Runner] = revision) =>
                  /\ pc'[Runner] = (IF revision.down_sql THEN "down_sql" ELSE "delete")
                  /\ table' = table
       /\ pc[Runner] \in {"up_sql", "down_sql"} =>
            /\ table' = table /\ tableExists' = tableExists
            /\ \/ pc'[Runner] = pc[Runner]
               \/ /\ pc[Runner] = "up_sql" /\ pc'[Runner] = "insert"
                  /\ schema'[arg[Runner].revision_id]
               \/ /\ pc[Runner] = "down_sql" /\ pc'[Runner] = "delete"
                  /\ ~schema'[arg[Runner].revision_id]
               \/ /\ pc'[Runner] = "idle"
                  /\ ret'[Runner].status \notin {"ok", "none"}
                  /\ ret'[Runner].at = pc[Runner]
                  /\ schema' = schema
       /\ (pc[Runner] = "insert" /\ arg[Runner].up_sql) =>
            schema[arg[Runner].revision_id]
       /\ (pc[Runner] = "delete" /\ arg[Runner].down_sql) =>
            ~schema[arg[Runner].revision_id]
       /\ table' # table => pc[Runner] \in {"insert", "delete"}
      ]_vars

\* The forward statement of a migrate_up has failed: the exception is with the
\* caller, the change is not in effect and the table, which held the row of
\* another revision, has no row for this one.
C17_Witness ==
    /\ ret[Runner] = Raised("migrate_up", "OperationalError", "up_sql")
    /\ ~schema["r1"]
    /\ HasRow(table, "r2") /\ ~HasRow(table, "r1")

\* C18: when the bookkeeping write fails, the revision's own statement, already
\* executed, is not undone: after a failed INSERT the forward change stays in
\* effect with no row written, after a failed DELETE it stays reversed with
\* the row still there.
C18_NoUndo ==
    [][/\ (Ends(Runner, "insert") /\ ret'[Runner].status # "ok") =>
            /\ table' = table
            /\ schema' = schema
            /\ arg[Runner].up_sql => schema'[arg[Runner].revision_id]
       /\ (Ends(Runner, "delete") /\ ret'[Runner].status # "ok") =>
            /\ table' = table
            /\ schema' = schema
            /\ arg[Runner].down_sql => ~schema'[arg[Runner].revision_id]
      ]_vars

\* The INSERT of migrate_up(r1) has failed after up_sql: the forward change of
\* r1 is in effect and the table has no row for r1.
C18_Witness ==
    /\ Quiescent
    /\ ret[Runner] = Raised("migrate_up", "OperationalError", "insert")
    /\ schema["r1"]
    /\ ~HasRow(table, "r1")

\* C19: nothing keeps two runners from both executing the forward statement of
\* the same unapplied revision; of their two INSERTs only one goes in: an
\* INSERT returns only when the table had no row for the revision and leaves
\* exactly one, and an INSERT that finds the row fails and changes nothing.
C19_AtMostOneInsert ==
    [][\A p \in Procs :
        LET id == arg[p].revision_id IN
        /\ Returns(p, "insert") =>
              /\ ~HasRow(table, id)
              /\ Cardinality({r \in table' : r.revision_id = id}) = 1
        /\ (Ends(p, "insert") /\ HasRow(table, id)) =>
              /\ ret'[p].status \in {"IntegrityError", "OperationalError"}
              /\ table' = table
      ]_vars

\* Both runners have executed the forward statement of r1, which has no row
\* yet, and both are about to insert it.
C19_Witness ==
    /\ \A p \in Procs :
          /\ pc[p] = "insert"
          /\ arg[p].revision_id = "r1"
          /\ arg[p].up_sql
    /\ schema["r1"]
    /\ tableExists
    /\ ~HasRow(table, "r1")

\* C20: the created_at migrate_up stores is the clock's value at the INSERT,
\* and it is never smaller than the created_at of a row inserted before, so
\* that the row of greatest created_at is the one inserted last.
C20_CreatedAtMonotonic ==
    [][Returns(Runner, "insert") =>
          \A new \in table' \ table :
              /\ new.created_at = now
              /\ \A r \in table : r.created_at <= new.created_at
      ]_vars

\* ------------------------------------------------------------------ claims on connecting
\* The last call of the runner was op.
Called(op) == ret[Runner].op = op

\* result is the ValueError of this text.
FailsWith(result, text) ==
    /\ ~result.ok
    /\ result.exc.type = "ValueError"
    /\ result.exc.message.text = text

\* result is the failure of the query that names key as having no value.
NamesEmpty(result, key) ==
    /\ FailsWith(result, "Failed to parse query parameters: {e}")
    /\ result.exc.cause # None
    /\ result.exc.cause[1].message =
          Message("Empty value for query parameter: {key}", <<PyStr(key)>>)

\* The parts of a descriptor as the claims speak of them.
HasScheme(d) == d.scheme = MysqlPrefix
HasHost(d) == d.host # <<>> /\ ~contains(d.host, "[")
HasPort(d) == d.port # None /\ d.port[1] # <<>>
Fields(d) == IF d.query = None THEN <<>> ELSE d.query[1]
InQuery(d, k) == \E i \in 1..Len(Fields(d)) : Fields(d)[i].key = KeyChars[k]
FirstValue(d, k) ==
    Fields(d)[CHOOSE i \in 1..Len(Fields(d)) :
                 /\ Fields(d)[i].key = KeyChars[k]
                 /\ \A j \in 1..(i - 1) : Fields(d)[j].key # KeyChars[k]].value
\* the keys whose value (the first one, when the key repeats) is empty
EmptyKeys(d) ==
    {Fields(d)[i].key : i \in {i \in 1..Len(Fields(d)) :
        /\ Fields(d)[i].value = Some(<<>>)
        /\ \A j \in 1..(i - 1) : Fields(d)[j].key # Fields(d)[i].key}}

\* C13: parse_params_from_dsn fails with the scheme message when the
\* descriptor does not start with mysql://, with the host message when the
\* host is absent, with the port message when the host is present and the port
\* absent, with a message naming the parameter when a query parameter has an
\* empty value; a descriptor with scheme, host and port and no empty query
\* value fails with none of the four.
C13_ParseFailureMessages ==
    Called("parse_params_from_dsn") =>
        LET d == arg[Runner].descriptor
            r == ret[Runner].result
        IN  /\ ~HasScheme(d) => FailsWith(r, "DSN string must start with mysql://")
            /\ (HasScheme(d) /\ d.host = <<>>) => FailsWith(r, "Host is required in DSN")
            /\ (HasScheme(d) /\ HasHost(d) /\ ~HasPort(d)) =>
                  FailsWith(r, "Port is required in DSN")
            /\ (HasScheme(d) /\ HasHost(d) /\ d.port = Some(Port1)
                  /\ EmptyKeys(d) # {}) =>
                  \E key \in EmptyKeys(d) : NamesEmpty(r, key)
            /\ (HasScheme(d) /\ HasHost(d) /\ HasPort(d) /\ EmptyKeys(d) = {}) =>
                  /\ ~FailsWith(r, "DSN string must start with mysql://")
                  /\ ~FailsWith(r, "Host is required in DSN")
                  /\ ~FailsWith(r, "Port is required in DSN")
                  /\ \A i \in 1..Len(Fields(d)) : ~NamesEmpty(r, Fields(d)[i].key)

\* C14: a descriptor that parses gives host and port; user, password and
\* database only when the authority, the path or the query has them, not
\* empty; for a recognized query key the first value of the query, whatever
\* the authority and the path say; no other key; and exactly host and port
\* when the descriptor has nothing else.
C14_ParsedParams ==
    (Called("parse_params_from_dsn") /\ ret[Runner].result.ok) =>
        LET d == arg[Runner].descriptor
            params == ret[Runner].result.value
            keys == DOMAIN params
        IN  /\ {"host", "port"} \subseteq keys
            /\ keys \subseteq {"host", "port"} \union OverrideKeys \union BOOLEAN_PARAM_KEYS
            /\ "user" \in keys <=> (Truthy(d.user) \/ InQuery(d, "user"))
            /\ "password" \in keys <=> (Truthy(d.password) \/ InQuery(d, "password"))
            /\ "database" \in keys <=>
                  ((\E i \in 1..Len(d.path) : d.path[i] # "/") \/ InQuery(d, "database"))
            /\ \A k \in BOOLEAN_PARAM_KEYS : k \in keys <=> InQuery(d, k)
            /\ \A k \in OverrideKeys \union BOOLEAN_PARAM_KEYS :
                  InQuery(d, k) =>
                      /\ FirstValue(d, k) \notin {None, Some(<<>>)}
                      /\ params[k] = PyStr(FirstValue(d, k)[1])
            /\ (Truthy(d.user) /\ ~InQuery(d, "user")) => params.user = PyStr(d.user[1])
            /\ (Truthy(d.password) /\ ~InQuery(d, "password")) =>
                  params.password = PyStr(d.password[1])
            /\ (~Truthy(d.user) /\ ~Truthy(d.password) /\ d.path \in {<<>>, <<"/">>}
                  /\ Fields(d) = <<>>) =>
                  keys = {"host", "port"}

\* user is given by the authority and twice by the query: the first value of
\* the query is the one in the result.
C14_Witness ==
    /\ Called("parse_params_from_dsn")
    /\ arg[Runner].descriptor.user = Some(U)
    /\ Fields(arg[Runner].descriptor) =
          <<Field(KeyChars.user, Some(V)), Field(KeyChars.user, Some(W))>>
    /\ ret[Runner].result.ok
    /\ ret[Runner].result.value.user = PyStr(V)

\* The port of a mapping passes validation.
PortPasses(params_dict) ==
    /\ int(params_dict.port).ok
    /\ int(params_dict.port).value \in 1..65535

\* C15: validate_parsed_params fails with the Invalid port value message,
\* naming the value, when the port does not coerce to an integer, with the
\* range message, naming the integer, when it is outside 1..65535, and with
\* neither otherwise, the result then holding the integer ("3306" gives 3306;
\* 0 and 70000 fail on the range); the mapping handed in is as it was and
\* every field but the port and the boolean parameters is in the result as
\* given.
C15_PortValidated ==
    Called("validate_parsed_params") =>
        LET given == arg[Runner].given
            r == ret[Runner].result
            n == int(given.port)
            invalid == "Invalid port value: {validated_params.get('port')}"
            range == "Port must be between 1 and 65535, got: {validated_params['port']}"
        IN  /\ ~n.ok =>
                  /\ FailsWith(r, invalid)
                  /\ r.exc.message.values = <<given.port>>
            /\ (n.ok /\ n.value \notin 1..65535) =>
                  /\ FailsWith(r, range)
                  /\ r.exc.message.values = <<PyInt(n.value)>>
            /\ (n.ok /\ n.value \in 1..65535) =>
                  /\ ~FailsWith(r, invalid) /\ ~FailsWith(r, range)
                  /\ r.ok => r.value.port = PyInt(n.value)
            /\ given.port = PyStr(<<"3", "3", "0", "6">>) =>
                  (r.ok => r.value.port = PyInt(3306)) /\ ~FailsWith(r, invalid)
            /\ given.port \in {PyInt(0), PyInt(70000)} => FailsWith(r, range)
            /\ arg[Runner].params_dict = given
            /\ r.ok =>
                  /\ DOMAIN r.value = DOMAIN given
                  /\ \A k \in DOMAIN given \ ({"port"} \union BOOLEAN_PARAM_KEYS) :
                        r.value[k] = given[k]

\* The port handed in as the string "3306" comes back as the integer 3306,
\* and the mapping handed in still holds the string.
C15_Witness ==
    /\ Called("validate_parsed_params")
    /\ arg[Runner].given.port = PyStr(<<"3", "3", "0", "6">>)
    /\ ret[Runner].result.ok
    /\ ret[Runner].result.value.port = PyInt(3306)
    /\ arg[Runner].params_dict.port = PyStr(<<"3", "3", "0", "6">>)

\* C16: when the port passes, validate_parsed_params succeeds exactly when
\* every boolean parameter present is a string or a boolean; the result then
\* has the boolean parameters the input has, a string as true exactly when
\* its lower-cased form is one of true, 1, yes, on, a boolean as it was;
\* otherwise it fails naming one such parameter and its value.
C16_BooleansCoerced ==
    (Called("validate_parsed_params") /\ PortPasses(arg[Runner].given)) =>
        LET given == arg[Runner].given
            r == ret[Runner].result
            present == BOOLEAN_PARAM_KEYS \intersect DOMAIN given
            invalid == {k \in present : given[k].type \notin {"str", "bool"}}
        IN  /\ r.ok <=> invalid = {}
            /\ r.ok =>
                  /\ BOOLEAN_PARAM_KEYS \intersect DOMAIN r.value = present
                  /\ \A k \in present :
                        /\ given[k].type = "str" =>
                              r.value[k] =
                                  PyBool(lower(given[k].str) \in
                                            {<<"t", "r", "u", "e">>, <<"1">>,
                                             <<"y", "e", "s">>, <<"o", "n">>})
                        /\ given[k].type = "bool" => r.value[k] = given[k]
            /\ ~r.ok =>
                  \E k \in invalid :
                      /\ FailsWith(r, "Invalid value for boolean parameter '{param}': {param_value}")
                      /\ r.exc.message.values = <<PyStr(KeyChars[k]), given[k]>>

\* autocommit "TRUE" has become true, use_pure is false as it was and
\* ssl_disabled, not given, is not in the result.
C16_Witness ==
    /\ Called("validate_parsed_params")
    /\ DOMAIN arg[Runner].given \intersect BOOLEAN_PARAM_KEYS = {"autocommit", "use_pure"}
    /\ arg[Runner].given.autocommit = PyStr(<<"T", "R", "U", "E">>)
    /\ arg[Runner].given.use_pure = PyBool(FALSE)
    /\ ret[Runner].result.ok
    /\ ret[Runner].result.value.autocommit = PyBool(TRUE)
    /\ "ssl_disabled" \notin DOMAIN ret[Runner].result.value
    /\ ret[Runner].result.value.use_pure = PyBool(FALSE)

\* C11: connect() fails exactly when parsing, validation or the driver
\* fails, always with a ConnectError whose message holds config.dsn and whose
\* cause is that failure; when it returns, the connection is open.
C11_ConnectErrorWraps ==
    Called("connect") =>
        LET r == ret[Runner].result
            parsed == parse_params_from_dsn(config.dsn)
        IN  /\ ~parsed.ok => ~r.ok /\ r.exc.cause = Some(parsed.exc)
            /\ ~r.ok =>
                  /\ r.exc.type = "ConnectError"
                  /\ r.exc.message.values = <<PyStr(config.dsn)>>
                  /\ r.exc.cause # None
                  /\ r.exc.cause[1].type \in {"ValueError", "InterfaceError"}
                  /\ r.exc.cause[1].type = "InterfaceError" => parsed.ok
                  /\ conn[Runner] = 0
            /\ r.ok =>
                  /\ parsed.ok
                  /\ conn[Runner] = 1
                  /\ {"host", "port"} \subseteq DOMAIN r.value.connection_params

\* The descriptor has no port: connect() has raised the ConnectError that
\* names the descriptor and has the parser's ValueError as its cause.
C11_Witness ==
    /\ Called("connect")
    /\ arg[Runner].descriptor.port = None
    /\ ~ret[Runner].result.ok
    /\ ret[Runner].result.exc.type = "ConnectError"
    /\ ret[Runner].result.exc.message.values = <<PyStr(Render(arg[Runner].descriptor))>>
    /\ ret[Runner].result.exc.cause # None
    /\ FailsWith(Threw(ret[Runner].result.exc.cause[1]), "Port is required in DSN")

RowsOf(rows, id) == {r \in rows : r.revision_id = id}

\* p's step is a step of get_head_revision, of list_migrations or of
\* connect(): a call is entered or refused, or a SELECT is executed
ReadsOrConnects(p) ==
    \/ pc[p] = "idle" /\ (pc'[p] # "idle" \/ ret'[p] # ret[p])
    \/ pc[p] \in {"select_head", "select_list"} /\ pc'[p] # pc[p]

\* C21: a revision has a row in the tracking table or has none, never more
\* than one, and passes from one to the other only by a call: a row of r
\* appears only by the INSERT of a migrate_up(r), which adds that one row, and
\* goes only by the DELETE of a migrate_down(r) or with the whole table by
\* drop_table_migration; the INSERT and the DELETE leave the rows of every
\* other revision as they were; get_head_revision, list_migrations and
\* connect() change nothing of the table.
C21_OnlyExplicitCalls ==
    [][/\ \A id \in RevIds :
            /\ Cardinality(RowsOf(table', id)) <= 1
            /\ RowsOf(table', id) # RowsOf(table, id) =>
                  \E p \in Procs :
                      \/ /\ Returns(p, "insert") /\ arg[p].revision_id = id
                         /\ RowsOf(table, id) = {}
                         /\ RowsOf(table', id) = {InsertParams(arg[p], now)}
                      \/ /\ Returns(p, "delete") /\ arg[p].revision_id = id
                         /\ RowsOf(table', id) = {}
                      \/ /\ Returns(p, "drop")
                         /\ table' = {}
       /\ \A p \in Procs :
            /\ Ends(p, "insert") =>
                  /\ Others(table', arg[p].revision_id) = Others(table, arg[p].revision_id)
                  /\ tableExists' = tableExists
                  /\ Returns(p, "insert") <=>
                        table' = table \cup {InsertParams(arg[p], now)} /\ table' # table
            /\ Ends(p, "delete") =>
                  /\ Others(table', arg[p].revision_id) = Others(table, arg[p].revision_id)
                  /\ tableExists' = tableExists
                  /\ table' \subseteq table
            /\ ReadsOrConnects(p) =>
                  /\ table' = table
                  /\ tableExists' = tableExists
       /\ (\A p \in Procs : pc'[p] = pc[p] /\ ret'[p] = ret[p]) =>
            /\ table' = table
            /\ tableExists' = tableExists
      ]_vars

\* One runner's migrate_up has added its row to a table that held the row of
\* the other revision, and the other runner's list_migrations has then
\* returned both rows, which are still there.
C21_Witness ==
    /\ Quiescent
    /\ \E p, q \in Procs :
          /\ ret[p] = Ok("migrate_up", 1)
          /\ ret[q].op = "list_migrations" /\ ret[q].status = "ok"
          /\ Len(ret[q].value) = 2
    /\ \A id \in RevIds : Cardinality(RowsOf(table, id)) = 1

\* p's step enters the call whose first statements are at `first`
Enters(p, first, revision) ==
    pc[p] = "idle" /\ pc'[p] \in first /\ arg'[p] = revision

\* C22: migrate_up and migrate_down do not look at the tracking table before
\* the revision's own statement.  A migrate_up(r) entered while r has its row
\* starts at up_sql all the same, executes it (the forward change is in
\* effect after it, whatever it was before), and only its INSERT fails, on the
\* primary key, leaving the one row of r and the change in effect.  A
\* migrate_down(r) entered while r has no row starts at down_sql all the same,
\* executes it, and its DELETE then returns 0 and leaves the table as it was.
C22_NoReadBeforeSql ==
    [][\A p \in Procs :
        /\ \A revision \in Revisions :
              /\ (Enters(p, {"up_sql", "insert"}, revision) /\ revision.up_sql
                    /\ HasRow(table, revision.revision_id)) =>
                    pc'[p] = "up_sql"
              /\ (Enters(p, {"down_sql", "delete"}, revision) /\ revision.down_sql
                    /\ ~HasRow(table, revision.revision_id)) =>
                    pc'[p] = "down_sql"
        /\ (pc[p] = "up_sql" /\ pc'[p] # "up_sql" /\ HasRow(table, arg[p].revision_id)) =>
              \/ /\ pc'[p] = "insert"
                 /\ schema'[arg[p].revision_id]
                 /\ table' = table
              \/ ret'[p] = Raised("migrate_up", "OperationalError", "up_sql")
        /\ (pc[p] = "down_sql" /\ pc'[p] # "down_sql" /\ ~HasRow(table, arg[p].revision_id)) =>
              \/ /\ pc'[p] = "delete"
                 /\ ~schema'[arg[p].revision_id]
                 /\ table' = table
              \/ ret'[p] = Raised("migrate_down", "OperationalError", "down_sql")
        /\ (Ends(p, "insert") /\ HasRow(table, arg[p].revision_id)) =>
              /\ \/ ret'[p] = Raised("migrate_up", "IntegrityError", "insert")
                 \/ ret'[p] = Raised("migrate_up", "OperationalError", "insert")
              /\ table' = table
              /\ Cardinality(RowsOf(table', arg[p].revision_id)) = 1
              /\ schema' = schema
        /\ (Ends(p, "delete") /\ tableExists /\ ~HasRow(table, arg[p].revision_id)) =>
              /\ \/ ret'[p] = Ok("migrate_down", 0)
                 \/ ret'[p] = Raised("migrate_down", "OperationalError", "delete")
              /\ table' = table
              /\ schema' = schema
      ]_vars

\* One runner alone has called migrate_up(r1) while r1 had its row: up_sql
\* has run again, the forward change is in effect, and the INSERT that will
\* fail on the primary key is next.
C22_Witness ==
    \E p, q \in Procs :
        /\ p # q
        /\ pc[q] = "idle" /\ ret[q] = NoRet
        /\ pc[p] = "insert"
        /\ arg[p].revision_id = "r1" /\ arg[p].up_sql
        /\ schema["r1"]
        /\ Cardinality(RowsOf(table, "r1")) = 1

====
